---- MODULE Spec2Model ----
(***************************************************************************)
(* Authentication session lifecycle of the MonarchMoney client            *)
(* (src/monarchmoney/monarchmoney.py): token, request headers, the        *)
(* pickled session artifact, the login / MFA handshake and the GraphQL    *)
(* request helper; and the session check of the command line interface    *)
(* (src/monarchmoney/cli.py), which expires the artifact by its age.      *)
(***************************************************************************)
EXTENDS Integers, Sequences, FiniteSets, TLC

VARIABLES inst, fs, lastOp, mtime, now, env, procs

vars == <<inst, fs, lastOp, mtime, now, env, procs>>

(***************************************************************************)
(* Bounds                                                                  *)
(***************************************************************************)
\* number of distinct bearer tokens the server can issue
NumTokens == 2

\* seconds the clock advances during a run
MaxTicks == 3

(***************************************************************************)
(* Python values                                                           *)
(***************************************************************************)
\* timeout: int = DEFAULT_TIMEOUT = 10 seconds
DEFAULT_TIMEOUT == 10

\* Python's None (a value no string of the model equals)
None == "<None>"

Tokens == {"t" \o ToString(n) : n \in 1..NumTokens}

\* Python's True and False as values a call returns
True == "True"

False == "False"

\* str(v) as used by an f-string: None is rendered as the text "None"
Str(v) == IF v = None THEN "None" ELSE v

\* truth value of an Optional[str]: None and "" are false
Truthy(v) == v # None /\ v # ""

\* a dict is a set of <<key, value>> pairs with distinct keys
DictHas(d, k) == \E p \in d : p[1] = k

DictGet(d, k) == (CHOOSE p \in d : p[1] = k)[2]

DictSet(d, k, v) == {p \in d : p[1] # k} \cup {<<k, v>>}

(***************************************************************************)
(* Module constants                                                        *)
(***************************************************************************)
SESSION_FILE == ".mm/mm_session.pickle"

\* a second location, as used by callers that pass filename explicitly
TEMP_FILE == "temp_session.pickle"

Locs == {SESSION_FILE, TEMP_FILE}

\* os.path.abspath: a relative path is resolved against the working directory
abspath(p) == "/cwd/" \o p

Paths == {abspath(l) : l \in Locs}

getLoginEndpoint == "https://api.monarchmoney.com" \o "/auth/login/"

getGraphQL == "https://api.monarchmoney.com" \o "/graphql"

(***************************************************************************)
(* Exceptions                                                              *)
(***************************************************************************)
Exc(type, msg) == [type |-> type, msg |-> msg]

\* the call returned normally
NoExc == Exc("", "")

RequireMFAException(msg) == Exc("RequireMFAException", msg)

LoginFailedException(msg) == Exc("LoginFailedException", msg)

(***************************************************************************)
(* Files                                                                   *)
(***************************************************************************)
AbsentFile == [exists |-> FALSE, fmt |-> "", obj |-> {}]

\* pickle.dump(obj, fh) on a file opened "wb": the file now holds obj's pickle
PickleFile(obj) == [exists |-> TRUE, fmt |-> "pickle", obj |-> obj]

\* a file whose bytes are not a pickle
RawFile == [exists |-> TRUE, fmt |-> "raw", obj |-> {}]

\* what a session location may hold before the client touches it
InitialFiles ==
    {AbsentFile, RawFile, PickleFile({})}
        \cup {PickleFile({<<"token", v>>}) : v \in Tokens \cup {None}}

(***************************************************************************)
(* Server responses                                                        *)
(***************************************************************************)
Reason(status) ==
    CASE status = 200 -> "OK"
      [] status = 401 -> "Unauthorized"
      [] status = 403 -> "Forbidden"
      [] status = 500 -> "Internal Server Error"
      [] OTHER -> ""

\* json = FALSE: resp.json() raises; body is the decoded dict otherwise
Resp(status, json, body) ==
    [status |-> status, reason |-> Reason(status), json |-> json, body |-> body]

ErrorBodies ==
    {{<<"detail", "Invalid code">>}, {<<"error_code", "MFA_INVALID">>}, {}}

\* the answers of the login endpoint: success with or without a token field,
\* the MFA challenge, a rejection with each kind of body, a server error
Responses ==
    {Resp(200, TRUE, {<<"token", t>>}) : t \in Tokens}
        \cup {Resp(200, TRUE, {})}
        \cup {Resp(403, TRUE, {<<"detail", "Multi-Factor Auth Required">>})}
        \cup {Resp(401, TRUE, b) : b \in ErrorBodies}
        \cup {Resp(401, FALSE, {}), Resp(500, FALSE, {})}

\* placeholder for a call that sends nothing
NoResponse == Resp(0, FALSE, {})

(***************************************************************************)
(* MonarchMoney                                                            *)
(***************************************************************************)
BaseHeaders ==
    {<<"Accept", "application/json">>,
     <<"Client-Platform", "web">>,
     <<"Content-Type", "application/json">>,
     <<"User-Agent", "MonarchMoneyAPI (https://github.com/hammem/monarchmoney)">>}

\* the value self._headers would have if it were None (no code assigns it)
HeadersNone == {<<"<None>", "<None>">>}

\* __init__
MonarchMoney(session_file, token) ==
    [headers |-> IF Truthy(token)
                 THEN DictSet(BaseHeaders, "Authorization", "Token " \o Str(token))
                 ELSE BaseHeaders,
     session_file |-> session_file,
     timeout |-> DEFAULT_TIMEOUT,
     token |-> token]

\* set_timeout
set_timeout(m, timeout_secs) == [m EXCEPT !.timeout = timeout_secs]

\* outcome of a call: the instance, the file system, the exception raised
\* (NoExc on normal return), the network requests issued, in order, the files
\* written (their modification time becomes the current time) and the value
\* returned: ret when it is None or a bool, retdict when it is a dict. For the
\* command line interface also the calls it made on itself and on the client,
\* in order, the JSON files it saved, and the exit status once it has exited.
Res(m, files, exc, reqs) ==
    [m |-> m, fs |-> files, exc |-> exc, reqs |-> reqs, wrote |-> {},
     ret |-> None, retdict |-> {}, calls |-> <<>>, saved |-> {}, status |-> <<>>]

\* a request as sent, with the answer it received
Request(url, headers, json, resp) ==
    [url |-> url, headers |-> headers, json |-> json, resp |-> resp]

\* a mutant: the setter leaves the token as it was
set_token_Unassigned(m, token) == m

set_token(m, token) == [m EXCEPT !.token = token]

\* a mutant: an artifact already at the location is kept (open(filename, "xb"))
save_session_KeepsExisting(m, files, filename) ==
    LET fn == abspath(IF filename = None THEN m.session_file ELSE filename)
        session_data == {<<"token", m.token>>}
    IN  IF files[fn].exists
        THEN Res(m, files, NoExc, <<>>)
        ELSE [Res(m, [files EXCEPT ![fn] = PickleFile(session_data)], NoExc, <<>>)
                 EXCEPT !.wrote = {fn}]

\* parent directories are created as needed and are not modelled
save_session(m, files, filename) ==
    LET fn == abspath(IF filename = None THEN m.session_file ELSE filename)
        session_data == {<<"token", m.token>>}
    IN  [Res(m, [files EXCEPT ![fn] = PickleFile(session_data)], NoExc, <<>>)
            EXCEPT !.wrote = {fn}]

\* a mutant: the token is restored and the Authorization header is not
load_session_NoHeader(m, files, filename) ==
    LET fn == abspath(IF filename = None THEN m.session_file ELSE filename)
        f == files[fn]
    IN  IF ~f.exists
        THEN Res(m, files, Exc("FileNotFoundError", fn), <<>>)
        ELSE IF f.fmt # "pickle"
        THEN Res(m, files, Exc("UnpicklingError", fn), <<>>)
        ELSE IF ~DictHas(f.obj, "token")
        THEN Res(m, files, Exc("KeyError", "token"), <<>>)
        ELSE Res(set_token(m, DictGet(f.obj, "token")), files, NoExc, <<>>)

\* a mutant: a pickle without the token field is read with data.get("token")
load_session_TokenOrNone(m, files, filename) ==
    LET fn == abspath(IF filename = None THEN m.session_file ELSE filename)
        f == files[fn]
    IN  IF ~f.exists
        THEN Res(m, files, Exc("FileNotFoundError", fn), <<>>)
        ELSE IF f.fmt # "pickle"
        THEN Res(m, files, Exc("UnpicklingError", fn), <<>>)
        ELSE LET m1 == set_token(m, IF DictHas(f.obj, "token")
                                    THEN DictGet(f.obj, "token") ELSE None)
                 m2 == [m1 EXCEPT !.headers =
                            DictSet(m1.headers, "Authorization",
                                    "Token " \o Str(m1.token))]
             IN  Res(m2, files, NoExc, <<>>)

\* open() resolves a relative name against the working directory
load_session(m, files, filename) ==
    LET fn == abspath(IF filename = None THEN m.session_file ELSE filename)
        f == files[fn]
    IN  IF ~f.exists
        THEN Res(m, files, Exc("FileNotFoundError", fn), <<>>)
        ELSE IF f.fmt # "pickle"
        THEN Res(m, files, Exc("UnpicklingError", fn), <<>>)
        ELSE IF ~DictHas(f.obj, "token")
        THEN Res(m, files, Exc("KeyError", "token"), <<>>)
        ELSE LET m1 == set_token(m, DictGet(f.obj, "token"))
                 m2 == [m1 EXCEPT !.headers =
                            DictSet(m1.headers, "Authorization",
                                    "Token " \o Str(m1.token))]
             IN  Res(m2, files, NoExc, <<>>)

\* a mutant: deleting the session also logs the instance out
delete_session_Logout(m, files, filename) ==
    LET fn == abspath(IF filename = None THEN m.session_file ELSE filename)
        m1 == [m EXCEPT !.token = None,
                        !.headers = {kv \in m.headers : kv[1] # "Authorization"}]
    IN  IF files[fn].exists
        THEN Res(m1, [files EXCEPT ![fn] = AbsentFile], NoExc, <<>>)
        ELSE Res(m1, files, NoExc, <<>>)

\* a mutant: os.remove without the os.path.exists test
delete_session_Unguarded(m, files, filename) ==
    LET fn == abspath(IF filename = None THEN m.session_file ELSE filename)
    IN  IF files[fn].exists
        THEN Res(m, [files EXCEPT ![fn] = AbsentFile], NoExc, <<>>)
        ELSE Res(m, files, Exc("FileNotFoundError", fn), <<>>)

delete_session(m, files, filename) ==
    LET fn == abspath(IF filename = None THEN m.session_file ELSE filename)
    IN  IF files[fn].exists
        THEN Res(m, [files EXCEPT ![fn] = AbsentFile], NoExc, <<>>)
        ELSE Res(m, files, NoExc, <<>>)

\* oathtool.generate_otp: the one-time code derived from the secret
generate_otp(mfa_secret_key) == "otp(" \o mfa_secret_key \o ")"

\* a mutant: the 403 answer is not told apart from the other failures
LoginUserRaises_No403(resp) ==
    IF resp.status # 200
    THEN LoginFailedException("HTTP Code " \o ToString(resp.status)
                              \o ": " \o resp.reason)
    ELSE NoExc

\* a mutant: every 4xx answer is taken for the MFA challenge
LoginUserRaises_4xxIsMfa(resp) ==
    IF resp.status \in {401, 403}
    THEN RequireMFAException("Multi-Factor Auth Required")
    ELSE IF resp.status # 200
    THEN LoginFailedException("HTTP Code " \o ToString(resp.status)
                              \o ": " \o resp.reason)
    ELSE NoExc

\* the exception _login_user raises on the response's status (NoExc: none)
LoginUserRaises(resp) ==
    IF resp.status = 403
    THEN RequireMFAException("Multi-Factor Auth Required")
    ELSE IF resp.status # 200
    THEN LoginFailedException("HTTP Code " \o ToString(resp.status)
                              \o ": " \o resp.reason)
    ELSE NoExc

login_user(m, files, email, password, mfa_secret_key, resp) ==
    LET data0 == {<<"password", password>>, <<"supports_mfa", "True">>,
                  <<"trusted_device", "False">>, <<"username", email>>}
        data == IF Truthy(mfa_secret_key)
                THEN DictSet(data0, "totp", generate_otp(mfa_secret_key))
                ELSE data0
        reqs == <<Request(getLoginEndpoint, m.headers, data, resp)>>
    IN  IF LoginUserRaises(resp) # NoExc
        THEN Res(m, files, LoginUserRaises(resp), reqs)
        ELSE IF ~resp.json
        THEN Res(m, files, Exc("ContentTypeError", ""), reqs)
        ELSE IF ~DictHas(resp.body, "token")
        THEN Res(m, files, Exc("KeyError", "token"), reqs)
        ELSE LET m1 == set_token(m, DictGet(resp.body, "token"))
                 m2 == [m1 EXCEPT !.headers =
                            DictSet(m1.headers, "Authorization",
                                    "Token " \o Str(m1.token))]
             IN  Res(m2, files, NoExc, reqs)

\* the exception raised inside the try block of _multi_factor_authenticate
MfaTryBlock(resp) ==
    IF ~resp.json
    THEN Exc("ContentTypeError", "")
    ELSE IF DictHas(resp.body, "detail")
    THEN RequireMFAException(DictGet(resp.body, "detail"))
    ELSE IF DictHas(resp.body, "error_code")
    THEN LoginFailedException(DictGet(resp.body, "error_code"))
    ELSE LoginFailedException("Unrecognized error message")

\* the bare "except:" clause catches every exception, those raised by the
\* try block's own raise statements included
BareExceptCatches(e) == TRUE

multi_factor_authenticate(m, files, email, password, code, resp) ==
    LET data == {<<"password", password>>, <<"supports_mfa", "True">>,
                 <<"totp", code>>, <<"trusted_device", "False">>,
                 <<"username", email>>}
        reqs == <<Request(getLoginEndpoint, m.headers, data, resp)>>
    IN  IF resp.status # 200
        THEN LET e == MfaTryBlock(resp)
             IN  IF BareExceptCatches(e)
                 THEN Res(m, files,
                          LoginFailedException(
                              "HTTP Code " \o ToString(resp.status) \o ": "
                              \o resp.reason \o "\nRaw response: <bound method>"),
                          reqs)
                 ELSE Res(m, files, e, reqs)
        ELSE IF ~resp.json
        THEN Res(m, files, Exc("ContentTypeError", ""), reqs)
        ELSE IF ~DictHas(resp.body, "token")
        THEN Res(m, files, Exc("KeyError", "token"), reqs)
        ELSE LET m1 == set_token(m, DictGet(resp.body, "token"))
                 m2 == [m1 EXCEPT !.headers =
                            DictSet(m1.headers, "Authorization",
                                    "Token " \o Str(m1.token))]
             IN  Res(m2, files, NoExc, reqs)

\* the first branch of login: restore the saved session
UsesSavedSession(m, files, use_saved_session) ==
    use_saved_session /\ files[abspath(m.session_file)].exists

\* a mutant: only absent credentials are refused, empty ones pass
MissingCredentials_NoneOnly(email, password) ==
    (email = None) \/ (password = None)

MissingCredentials(email, password) ==
    (email = None) \/ (password = None) \/ (email = "") \/ (password = "")

\* a mutant: the credentials are validated before the saved session is tried
login_ValidatesFirst(m, files, email, password, use_saved_session, do_save, mfa_secret_key, resp) ==
    IF MissingCredentials(email, password)
    THEN Res(m, files,
             LoginFailedException(
                 "Email and password are required to login when not using a saved session."),
             <<>>)
    ELSE IF UsesSavedSession(m, files, use_saved_session)
    THEN load_session(m, files, m.session_file)
    ELSE LET r == login_user(m, files, email, password, mfa_secret_key, resp)
         IN  IF r.exc # NoExc
             THEN r
             ELSE IF do_save
             THEN [save_session(r.m, r.fs, r.m.session_file) EXCEPT !.reqs = r.reqs]
             ELSE r

\* a mutant: the session is written whether or not _login_user succeeded
login_SavesAlways(m, files, email, password, use_saved_session, do_save, mfa_secret_key, resp) ==
    IF UsesSavedSession(m, files, use_saved_session)
    THEN load_session(m, files, m.session_file)
    ELSE IF MissingCredentials(email, password)
    THEN Res(m, files,
             LoginFailedException(
                 "Email and password are required to login when not using a saved session."),
             <<>>)
    ELSE LET r == login_user(m, files, email, password, mfa_secret_key, resp)
         IN  IF do_save
             THEN [save_session(r.m, r.fs, r.m.session_file)
                     EXCEPT !.reqs = r.reqs, !.exc = r.exc]
             ELSE r

\* a mutant: the saved session remembers the credentials next to the token
login_RemembersCredentials(m, files, email, password, use_saved_session, do_save, mfa_secret_key, resp) ==
    IF UsesSavedSession(m, files, use_saved_session)
    THEN load_session(m, files, m.session_file)
    ELSE IF MissingCredentials(email, password)
    THEN Res(m, files,
             LoginFailedException(
                 "Email and password are required to login when not using a saved session."),
             <<>>)
    ELSE LET r == login_user(m, files, email, password, mfa_secret_key, resp)
             fn == abspath(r.m.session_file)
         IN  IF r.exc # NoExc
             THEN r
             ELSE IF do_save
             THEN [r EXCEPT !.fs = [r.fs EXCEPT ![fn] =
                                       PickleFile({<<"token", r.m.token>>,
                                                   <<"email", email>>,
                                                   <<"password", password>>})],
                            !.wrote = {fn}]
             ELSE r

login(m, files, email, password, use_saved_session, do_save, mfa_secret_key, resp) ==
    IF UsesSavedSession(m, files, use_saved_session)
    THEN load_session(m, files, m.session_file)
    ELSE IF MissingCredentials(email, password)
    THEN Res(m, files,
             LoginFailedException(
                 "Email and password are required to login when not using a saved session."),
             <<>>)
    ELSE LET r == login_user(m, files, email, password, mfa_secret_key, resp)
         IN  IF r.exc # NoExc
             THEN r
             ELSE IF do_save
             THEN [save_session(r.m, r.fs, r.m.session_file) EXCEPT !.reqs = r.reqs]
             ELSE r

\* a mutant: the session is not saved when the login went through MFA
interactive_login_NoSaveAfterMfa(m, files, email, passwd, code, use_saved_session, do_save, resp, resp2) ==
    LET r == login(m, files, email, passwd, use_saved_session, do_save, None, resp)
    IN  IF r.exc.type = "RequireMFAException"
        THEN LET r2 == multi_factor_authenticate(r.m, r.fs, email, passwd, code, resp2)
                 rq == r.reqs \o r2.reqs
             IN  [r2 EXCEPT !.reqs = rq]
        ELSE r

interactive_login(m, files, email, passwd, code, use_saved_session, do_save, resp, resp2) ==
    LET r == login(m, files, email, passwd, use_saved_session, do_save, None, resp)
    IN  IF r.exc.type = "RequireMFAException"
        THEN LET r2 == multi_factor_authenticate(r.m, r.fs, email, passwd, code, resp2)
                 rq == r.reqs \o r2.reqs
             IN  IF r2.exc # NoExc
                 THEN [r2 EXCEPT !.reqs = rq]
                 ELSE IF do_save
                 THEN [save_session(r2.m, r2.fs, r2.m.session_file) EXCEPT !.reqs = rq]
                 ELSE [r2 EXCEPT !.reqs = rq]
        ELSE r

\* what the transport does with the one GraphQL request
GqlOutcomes == {"ok", "unauthorized", "timeout"}

\* the decoded payload of a successful GraphQL answer
Payload == {<<"data", "{...}">>}

\* the answer to the GraphQL request (none on a timeout)
GqlResponse(outcome) ==
    CASE outcome = "ok" -> Resp(200, TRUE, Payload)
      [] outcome = "unauthorized" -> Resp(401, TRUE, {})
      [] OTHER -> NoResponse

GqlError(outcome) ==
    CASE outcome = "ok" -> NoExc
      [] outcome = "unauthorized" -> Exc("TransportServerError", "401, message='Unauthorized'")
      [] OTHER -> Exc("TimeoutError", "")

\* a mutant: a request that fails is sent once more before giving up
gql_call_RetriesOnce(m, files, operation, outcome) ==
    LET req == Request(getGraphQL, m.headers, {<<"operationName", operation>>},
                       GqlResponse(outcome))
    IN  IF m.headers = HeadersNone
        THEN Res(m, files,
                 LoginFailedException(
                     "Make sure you call login() first or provide a session token!"),
                 <<>>)
        ELSE [Res(m, files, GqlError(outcome),
                  IF outcome = "ok" THEN <<req>> ELSE <<req, req>>)
                 EXCEPT !.retdict = IF outcome = "ok" THEN GqlResponse(outcome).body ELSE {}]

\* a mutant: a failed request logs the instance out and resets its timeout
gql_call_ResetsOnFailure(m, files, operation, outcome) ==
    LET m1 == IF outcome = "ok" THEN m
              ELSE [m EXCEPT !.token = None,
                             !.timeout = DEFAULT_TIMEOUT,
                             !.headers = {kv \in m.headers : kv[1] # "Authorization"}]
    IN  IF m.headers = HeadersNone
        THEN Res(m, files,
                 LoginFailedException(
                     "Make sure you call login() first or provide a session token!"),
                 <<>>)
        ELSE [Res(m1, files, GqlError(outcome),
                  <<Request(getGraphQL, m.headers, {<<"operationName", operation>>},
                            GqlResponse(outcome))>>)
                 EXCEPT !.retdict = IF outcome = "ok" THEN GqlResponse(outcome).body ELSE {}]

\* _get_graphql_client followed by execute_async
gql_call(m, files, operation, outcome) ==
    IF m.headers = HeadersNone
    THEN Res(m, files,
             LoginFailedException(
                 "Make sure you call login() first or provide a session token!"),
             <<>>)
    ELSE [Res(m, files, GqlError(outcome),
              <<Request(getGraphQL, m.headers, {<<"operationName", operation>>},
                        GqlResponse(outcome))>>)
             EXCEPT !.retdict = IF outcome = "ok" THEN GqlResponse(outcome).body ELSE {}]

(***************************************************************************)
(* Session check of the command line interface                             *)
(***************************************************************************)
\* timedelta(hours=0.25), in seconds
PRODUCTION_TTL == 900

\* timedelta(hours=1.0), in seconds
DEVELOPMENT_TTL == 3600

\* values of the MONARCH_ENV environment variable (None: unset)
Envs == {None, "production", "Production", "staging"}

\* str.lower() on the values above
lower(e) == IF e = "Production" THEN "production" ELSE e

\* os.getenv("MONARCH_ENV", "development")
getenv(e) == IF e = None THEN "development" ELSE e

\* a mutant: MONARCH_ENV is compared as written
get_session_ttl_CaseSensitive(e) ==
    IF getenv(e) = "production" THEN PRODUCTION_TTL ELSE DEVELOPMENT_TTL

\* time to live of a session, in seconds
get_session_ttl(e) ==
    IF lower(getenv(e)) = "production" THEN PRODUCTION_TTL ELSE DEVELOPMENT_TTL

\* a mutant: any session that exists is valid
check_session_NoExpiry(m, files, mt, t, e) ==
    LET session_path == abspath(SESSION_FILE)
    IN  IF ~files[session_path].exists
        THEN [Res(m, files, NoExc, <<>>) EXCEPT !.ret = False]
        ELSE [Res(m, files, NoExc, <<>>) EXCEPT !.ret = True]

\* a mutant: an expired session is reported and left in place
check_session_KeepsExpired(m, files, mt, t, e) ==
    LET session_path == abspath(SESSION_FILE)
        ttl == get_session_ttl(e)
        age == t - mt[session_path]
    IN  IF ~files[session_path].exists
        THEN [Res(m, files, NoExc, <<>>) EXCEPT !.ret = False]
        ELSE IF age < ttl
             THEN [Res(m, files, NoExc, <<>>) EXCEPT !.ret = True]
             ELSE [Res(m, files, NoExc, <<>>) EXCEPT !.ret = False]

\* a mutant: a session of age exactly ttl is still valid
check_session_Inclusive(m, files, mt, t, e) ==
    LET session_path == abspath(SESSION_FILE)
        ttl == get_session_ttl(e)
        age == t - mt[session_path]
    IN  IF ~files[session_path].exists
        THEN [Res(m, files, NoExc, <<>>) EXCEPT !.ret = False]
        ELSE IF age <= ttl
             THEN [Res(m, files, NoExc, <<>>) EXCEPT !.ret = True]
             ELSE [Res(m, [files EXCEPT ![session_path] = AbsentFile], NoExc, <<>>)
                      EXCEPT !.ret = False]

\* MonarchMoneyCLI.check_session run to completion: mt are the modification
\* times, t the current time, e the environment variable. stat() on a file
\* that exists() has just found does not raise, so the except branch is not
\* entered.
check_session(m, files, mt, t, e) ==
    LET session_path == abspath(SESSION_FILE)
        ttl == get_session_ttl(e)
        age == t - mt[session_path]
    IN  IF ~files[session_path].exists
        THEN [Res(m, files, NoExc, <<>>) EXCEPT !.ret = False]
        ELSE IF age < ttl
             THEN [Res(m, files, NoExc, <<>>) EXCEPT !.ret = True]
             ELSE [Res(m, [files EXCEPT ![session_path] = AbsentFile], NoExc, <<>>)
                      EXCEPT !.ret = False]

\* answers to the login POST of an interactive login: a token, the MFA
\* challenge, a rejection
MfaChallenge == Resp(403, TRUE, {<<"detail", "Multi-Factor Auth Required">>})

AttemptResponses ==
    {Resp(200, TRUE, {<<"token", t>>}) : t \in Tokens}
        \cup {MfaChallenge, Resp(401, FALSE, {})}

\* a method the command line interface calls and class MonarchMoney does not
\* define: the attribute lookup raises
Undefined(m, files, name) ==
    Res(m, files,
        Exc("AttributeError", "'MonarchMoney' object has no attribute '" \o name \o "'"),
        <<>>)

\* a mutant: the method exists and the server rejects the restored token
get_subscription_details_Unauthorized(m, files) == gql_call(m, files, "GetSubscriptionDetails", "unauthorized")

get_subscription_details(m, files) == Undefined(m, files, "get_subscription_details")

\* "401" in str(api_error) or "Unauthorized" in str(api_error), on the
\* messages of the model
UnauthorizedLooking(exc) ==
    exc.msg \in {"401, message='Unauthorized'", "HTTP Code 401: Unauthorized"}

\* a mutant: the interactive login does not save the session
FreshLogin_NoSave(m, files, a) ==
    interactive_login(m, files, a.email, a.passwd, a.code, FALSE, FALSE, a.resp, a.resp2)

\* one interactive login of the command line interface, answered as attempt a
FreshLogin(m, files, a) ==
    interactive_login(m, files, a.email, a.passwd, a.code, FALSE, TRUE, a.resp, a.resp2)

\* the outcome of ensure_authenticated, which made the calls cs and whose
\* requests so far were rq, ending with the call that gave r
Ensured(r, rq, cs) ==
    [r EXCEPT !.reqs = rq \o r.reqs,
              !.calls = cs,
              !.retdict = {},
              !.ret = IF r.exc = NoExc THEN True ELSE None]

\* a mutant: force_login is ignored when the session is valid
ensure_authenticated_IgnoresForce(m, files, mt, t, e, force_login, a1, a2) ==
    LET c == check_session(m, files, mt, t, e)
        has_valid_session == c.ret = True
        l == load_session(m, c.fs, SESSION_FILE)
        v == get_subscription_details(l.m, l.fs)
        r1 == FreshLogin(l.m, l.fs, a1)
    IN  IF ~has_valid_session
        THEN Ensured(FreshLogin(m, c.fs, a1), <<>>,
                     <<"check_session", "interactive_login">>)
        ELSE IF l.exc # NoExc
        THEN Ensured(FreshLogin(m, c.fs, a1), <<>>,
                     <<"check_session", "load_session", "interactive_login">>)
        ELSE IF v.exc = NoExc
        THEN Ensured(v, <<>>,
                     <<"check_session", "load_session", "get_subscription_details">>)
        ELSE IF ~UnauthorizedLooking(v.exc)
        THEN Ensured(FreshLogin(v.m, v.fs, a1), v.reqs,
                     <<"check_session", "load_session", "get_subscription_details",
                       "interactive_login">>)
        ELSE IF r1.exc = NoExc
        THEN Ensured(r1, v.reqs,
                     <<"check_session", "load_session", "get_subscription_details",
                       "interactive_login">>)
        ELSE Ensured(FreshLogin(r1.m, r1.fs, a2), v.reqs \o r1.reqs,
                     <<"check_session", "load_session", "get_subscription_details",
                       "interactive_login", "interactive_login">>)

\* MonarchMoneyCLI.ensure_authenticated; self.mm is m
ensure_authenticated(m, files, mt, t, e, force_login, a1, a2) ==
    LET c == check_session(m, files, mt, t, e)
        has_valid_session == c.ret = True /\ ~force_login
        l == load_session(m, c.fs, SESSION_FILE)
        v == get_subscription_details(l.m, l.fs)
        r1 == FreshLogin(l.m, l.fs, a1)
    IN  IF ~has_valid_session
        THEN Ensured(FreshLogin(m, c.fs, a1), <<>>,
                     <<"check_session", "interactive_login">>)
        ELSE IF l.exc # NoExc
        THEN Ensured(FreshLogin(m, c.fs, a1), <<>>,
                     <<"check_session", "load_session", "interactive_login">>)
        ELSE IF v.exc = NoExc
        THEN Ensured(v, <<>>,
                     <<"check_session", "load_session", "get_subscription_details">>)
        ELSE IF ~UnauthorizedLooking(v.exc)
        THEN Ensured(FreshLogin(v.m, v.fs, a1), v.reqs,
                     <<"check_session", "load_session", "get_subscription_details",
                       "interactive_login">>)
        ELSE IF r1.exc = NoExc
        THEN Ensured(r1, v.reqs,
                     <<"check_session", "load_session", "get_subscription_details",
                       "interactive_login">>)
        ELSE Ensured(FreshLogin(r1.m, r1.fs, a2), v.reqs \o r1.reqs,
                     <<"check_session", "load_session", "get_subscription_details",
                       "interactive_login", "interactive_login">>)

\* the methods besides get_subscription_details that the command line
\* interface calls and class MonarchMoney does not define
get_budgets(m, files) == Undefined(m, files, "get_budgets")

get_cashflow(m, files) == Undefined(m, files, "get_cashflow")

\* get_accounts and get_transactions: one gql_call each
get_accounts(m, files, outcome) == gql_call(m, files, "GetAccounts", outcome)

get_transactions(m, files, outcome) == gql_call(m, files, "GetTransactionsList", outcome)

\* r, the outcome of the last call of a command, as the outcome of the command
\* after ensure_authenticated gave ea
Handled(ea, r, name, saved) ==
    [r EXCEPT !.reqs = ea.reqs \o r.reqs,
              !.calls = Append(ea.calls, name),
              !.ret = None,
              !.retdict = {},
              !.saved = IF r.exc = NoExc THEN saved ELSE {}]

\* cmd_accounts, cmd_transactions, cmd_budgets, cmd_cashflow: the data is
\* fetched and then saved to args.output when that is given, printed otherwise
Fetched(ea, r, name, output) ==
    Handled(ea, r, name, IF Truthy(output) THEN {output} ELSE {})

\* the names under which cmd_full_sync saves what it fetches, in order
SyncNames ==
    <<"subscription", "accounts", "institutions", "budgets", "transactions_summary",
      "categories", "transactions">>

\* cmd_full_sync after ensure_authenticated and setup_cache: building the list
\* data_operations calls self.mm.get_subscription_details first, outside the
\* try of the loop
cmd_full_sync(ea, start_date, end_date) ==
    Handled(ea, get_subscription_details(ea.m, ea.fs), "get_subscription_details", {})

\* the user's Ctrl-C as it reaches main: not at all, as KeyboardInterrupt, or
\* as the CancelledError asyncio.run throws into the task
Interrupts == {None, "KeyboardInterrupt", "CancelledError"}

\* where the first prompt of ensure_authenticated finds the run: after
\* check_session gave c, and after load_session gave l when that was called
Prompted(force_login, c, l) ==
    IF c.ret = True /\ ~force_login /\ l.exc = NoExc THEN l ELSE c

\* the command handler chosen by main once ensure_authenticated gave ea, or
\* interrupted at the first prompt of ensure_authenticated
Routed(args, ea, atPrompt, outcome, interrupt) ==
    IF interrupt # None
    THEN [atPrompt EXCEPT !.exc = Exc(interrupt, ""), !.ret = None,
                          !.calls = <<"check_session">>]
    ELSE IF ea.exc # NoExc \/ args.command = "login"
    THEN [ea EXCEPT !.ret = None]
    ELSE CASE args.command = "status" ->
                Handled(ea, get_subscription_details(ea.m, ea.fs),
                        "get_subscription_details", {})
           [] args.command = "accounts" ->
                Fetched(ea, get_accounts(ea.m, ea.fs, outcome), "get_accounts",
                        args.output)
           [] args.command = "transactions" ->
                Fetched(ea, get_transactions(ea.m, ea.fs, outcome),
                        "get_transactions", args.output)
           [] args.command = "budgets" ->
                Fetched(ea, get_budgets(ea.m, ea.fs), "get_budgets", args.output)
           [] args.command = "cashflow" ->
                Fetched(ea, get_cashflow(ea.m, ea.fs), "get_cashflow", args.output)
           [] OTHER -> cmd_full_sync(ea, args.start_date, args.end_date)

\* the command handler of a command line, every one of which starts with
\* ensure_authenticated
Command(args, m, files, mt, t, e, a1, a2, outcome, interrupt) ==
    Routed(args,
           ensure_authenticated(m, files, mt, t, e, args.force, a1, a2),
           Prompted(args.force, check_session(m, files, mt, t, e),
                    load_session(m, check_session(m, files, mt, t, e).fs, SESSION_FILE)),
           outcome, interrupt)

\* the exceptions 'except Exception' catches
IsException(exc) == exc # NoExc /\ exc.type \notin {"KeyboardInterrupt", "CancelledError"}

\* a mutant: main's second handler is 'except BaseException'
main_CatchesBaseException(args, m, files, mt, t, e, a1, a2, outcome, interrupt) ==
    LET h == Command(args, m, files, mt, t, e, a1, a2, outcome, interrupt)
    IN  IF ~Truthy(args.command)
        THEN IF interrupt # None
             THEN Res(m, files, Exc(interrupt, ""), <<>>)
             ELSE [Res(m, files, NoExc, <<>>) EXCEPT !.status = <<1>>]
        ELSE IF h.exc.type = "KeyboardInterrupt"
        THEN [h EXCEPT !.exc = NoExc, !.status = <<130>>]
        ELSE IF h.exc # NoExc
        THEN [h EXCEPT !.exc = NoExc, !.status = <<1>>]
        ELSE [h EXCEPT !.status = <<0>>]

\* main after its handler gave h: the value it returns, or the exception
\* that leaves it. Without a command it returns before the try, where an
\* interrupt is not caught.
Returned(args, m, files, h, interrupt) ==
    IF ~Truthy(args.command)
    THEN IF interrupt # None
         THEN Res(m, files, Exc(interrupt, ""), <<>>)
         ELSE [Res(m, files, NoExc, <<>>) EXCEPT !.status = <<1>>]
    ELSE IF h.exc.type = "KeyboardInterrupt"
    THEN [h EXCEPT !.exc = NoExc, !.status = <<130>>]
    ELSE IF IsException(h.exc)
    THEN [h EXCEPT !.exc = NoExc, !.status = <<1>>]
    ELSE IF h.exc # NoExc
    THEN h
    ELSE [h EXCEPT !.status = <<0>>]

main(args, m, files, mt, t, e, a1, a2, outcome, interrupt) ==
    Returned(args, m, files,
             Command(args, m, files, mt, t, e, a1, a2, outcome, interrupt), interrupt)

\* sys.exit with main's value r; asyncio.run turns the cancellation of the
\* main task by Ctrl-C into KeyboardInterrupt
sys_exit(r) ==
    IF r.exc # NoExc
    THEN [r EXCEPT !.exc = NoExc, !.status = <<130>>]
    ELSE r

cli_main(args, m, files, mt, t, e, a1, a2, outcome, interrupt) ==
    sys_exit(main(args, m, files, mt, t, e, a1, a2, outcome, interrupt))

(***************************************************************************)
(* State machine                                                           *)
(***************************************************************************)
Insts == {"A", "B"}

Emails == {None, "", "user@example.com"}

Passwords == {None, "", "hunter2"}

Secrets == {None, "SECRET"}

Codes == {"123456"}

Operations == {"GetAccounts", "GetTransactionsList"}

\* timeouts a caller sets, in seconds
Timeouts == {DEFAULT_TIMEOUT, 30}

\* the call just made: operation, instance, the file it was given (for the
\* session file operations), exception and requests issued with their answers
Call(op, i, path, r) ==
    [op |-> op, i |-> i, path |-> path, exc |-> r.exc, reqs |-> r.reqs,
     ret |-> r.ret, retdict |-> r.retdict, calls |-> r.calls, saved |-> r.saved,
     status |-> r.status]

\* modification times after a call made at time t: a written file is stamped
\* t, a file that is gone has none (0)
Stamp(mt, t, r) ==
    [p \in Paths |-> IF p \in r.wrote THEN t
                     ELSE IF r.fs[p].exists THEN mt[p] ELSE 0]

Apply(op, i, path, r) ==
    /\ inst' = [inst EXCEPT ![i] = r.m]
    /\ fs' = r.fs
    /\ lastOp' = Call(op, i, path, r)
    /\ mtime' = Stamp(mtime, now, r)
    /\ UNCHANGED <<now, env, procs>>

\* the file a session file operation works on
Target(m, filename) == abspath(IF filename = None THEN m.session_file ELSE filename)

\* the answers a login call can receive: none when it sends nothing
LoginResponses(m, files, email, password, use_saved_session) ==
    IF UsesSavedSession(m, files, use_saved_session)
       \/ MissingCredentials(email, password)
    THEN {NoResponse} ELSE Responses

\* no call made yet
NoCall ==
    [op |-> "__init__", i |-> "A", path |-> "", exc |-> NoExc, reqs |-> <<>>,
     ret |-> None, retdict |-> {}, calls |-> <<>>, saved |-> {}, status |-> <<>>]

\* the operating system processes that run check_session on the one session
\* location
Procs == {"P", "Q"}

\* a process that has not entered check_session: pc is its position,
\* session_mtime the local of line 49, ret its return value, exc the exception
\* that left the function, unlinked the number of files it removed
Idle ==
    [pc |-> "exists", session_mtime |-> 0, ret |-> None, exc |-> NoExc, unlinked |-> 0]

\* the clock stands still and MONARCH_ENV is unset
Init ==
    /\ procs = [p \in Procs |-> Idle]
    /\ inst = [i \in Insts |-> MonarchMoney(SESSION_FILE, None)]
    /\ fs \in [Paths -> InitialFiles]
    /\ lastOp = NoCall
    /\ mtime = [p \in Paths |-> 0]
    /\ now = 0
    /\ env = None

Construct(i) ==
    \E token \in Tokens \cup {None} :
        Apply("__init__", i, "", Res(MonarchMoney(SESSION_FILE, token), fs, NoExc, <<>>))

SetToken(i) ==
    \E token \in Tokens :
        Apply("set_token", i, "", Res(set_token(inst[i], token), fs, NoExc, <<>>))

SetTimeout(i) ==
    \E timeout_secs \in Timeouts :
        Apply("set_timeout", i, "", Res(set_timeout(inst[i], timeout_secs), fs, NoExc, <<>>))

SaveSessionAt(i, filename) ==
    Apply("save_session", i, Target(inst[i], filename), save_session(inst[i], fs, filename))

SaveSession(i) == \E filename \in Locs \cup {None} : SaveSessionAt(i, filename)

LoadSession(i) ==
    \E filename \in Locs \cup {None} :
        Apply("load_session", i, Target(inst[i], filename), load_session(inst[i], fs, filename))

DeleteSessionAt(i, filename) ==
    Apply("delete_session", i, Target(inst[i], filename), delete_session(inst[i], fs, filename))

DeleteSession(i) == \E filename \in Locs \cup {None} : DeleteSessionAt(i, filename)

Login(i) ==
    \E email \in Emails, password \in Passwords,
       use_saved_session \in BOOLEAN, do_save \in BOOLEAN,
       mfa_secret_key \in Secrets :
        \E resp \in LoginResponses(inst[i], fs, email, password, use_saved_session) :
            Apply("login", i, "",
                  login(inst[i], fs, email, password, use_saved_session,
                        do_save, mfa_secret_key, resp))

InteractiveLogin(i) ==
    \E email \in Emails \ {None}, passwd \in Passwords \ {None}, code \in Codes,
       use_saved_session \in BOOLEAN, do_save \in BOOLEAN :
        \E resp \in LoginResponses(inst[i], fs, email, passwd, use_saved_session) :
            \E resp2 \in IF resp.status = 403 THEN Responses ELSE {NoResponse} :
                Apply("interactive_login", i, "",
                      interactive_login(inst[i], fs, email, passwd, code,
                                        use_saved_session, do_save, resp, resp2))

MultiFactorAuthenticate(i) ==
    \E email \in Emails \ {None, ""}, password \in Passwords \ {None, ""}, code \in Codes :
        \E resp \in Responses :
            Apply("multi_factor_authenticate", i, "",
                  multi_factor_authenticate(inst[i], fs, email, password, code, resp))

GqlCall(i) ==
    \E operation \in Operations, outcome \in GqlOutcomes :
        Apply("gql_call", i, "", gql_call(inst[i], fs, operation, outcome))

\* every operation of the client, on one instance
Next ==
    \/ Construct("A")
    \/ SetToken("A")
    \/ SaveSession("A")
    \/ LoadSession("A")
    \/ DeleteSession("A")
    \/ Login("A")
    \/ InteractiveLogin("A")
    \/ MultiFactorAuthenticate("A")
    \/ GqlCall("A")

Spec == Init /\ [][Next]_vars

\* the same with a second instance that is constructed, restores a session
\* and issues requests
NextRoundTrip ==
    \/ Next
    \/ Construct("B")
    \/ LoadSession("B")
    \/ GqlCall("B")

SpecRoundTrip == Init /\ [][NextRoundTrip]_vars

\* the session file operations and GraphQL requests of one instance whose
\* timeout the caller configures
NextRequest ==
    \/ Construct("A")
    \/ SetToken("A")
    \/ SetTimeout("A")
    \/ SaveSession("A")
    \/ LoadSession("A")
    \/ DeleteSession("A")
    \/ GqlCall("A")

SpecRequest == Init /\ [][NextRequest]_vars

\* the command line interface: the clock starts shortly before a time to live
\* has passed since the artifact found at the session location was written
StartTimes == {0, PRODUCTION_TTL - 2, DEVELOPMENT_TTL - 2}

InitCli ==
    /\ procs = [p \in Procs |-> Idle]
    /\ inst = [i \in Insts |-> MonarchMoney(SESSION_FILE, None)]
    /\ \E f \in InitialFiles :
           fs = [p \in Paths |-> IF p = abspath(SESSION_FILE) THEN f ELSE AbsentFile]
    /\ lastOp = NoCall
    /\ mtime = [p \in Paths |-> 0]
    /\ now \in StartTimes
    /\ env \in Envs

\* a second passes
Tick ==
    /\ \E s \in StartTimes : now - s \in 0..(MaxTicks - 1)
    /\ now' = now + 1
    /\ UNCHANGED <<inst, fs, lastOp, mtime, env, procs>>

CheckSession(i) ==
    Apply("check_session", i, abspath(SESSION_FILE),
          check_session(inst[i], fs, mtime, now, env))

\* the client of the command line interface keeps the default session file
NextCli ==
    \/ Tick
    \/ CheckSession("A")
    \/ Construct("A")
    \/ SaveSessionAt("A", None)
    \/ DeleteSessionAt("A", None)

SpecCli == InitCli /\ [][NextCli]_vars

\* what the user types at the prompts of one interactive login and what the
\* server answers to it
Attempts ==
    {[email |-> "", passwd |-> "", code |-> c, resp |-> NoResponse, resp2 |-> NoResponse] :
        c \in Codes}
    \cup {[email |-> "user@example.com", passwd |-> "hunter2", code |-> c,
           resp |-> r, resp2 |-> r2] :
              c \in Codes, r \in AttemptResponses \ {MfaChallenge}, r2 \in {NoResponse}}
    \cup {[email |-> "user@example.com", passwd |-> "hunter2", code |-> c,
           resp |-> MfaChallenge, resp2 |-> r2] :
              c \in Codes, r2 \in AttemptResponses}

\* a command makes its one ensure_authenticated call; the second attempt is
\* prompted for only when a first one failed after an unauthorized validation
EnsureAuthenticated(i) ==
    \E force_login \in BOOLEAN, a1 \in Attempts :
        \E a2 \in IF Len(ensure_authenticated(inst[i], fs, mtime, now, env,
                                              force_login, a1, a1).calls) = 5
                   THEN Attempts ELSE {a1} :
            Apply("ensure_authenticated", i, abspath(SESSION_FILE),
                  ensure_authenticated(inst[i], fs, mtime, now, env, force_login, a1, a2))

\* the command lines argparse accepts (an unknown command ends in parse_args)
Args ==
    {[command |-> None, force |-> FALSE, output |-> None,
      start_date |-> None, end_date |-> None]}
    \cup {[command |-> "login", force |-> f, output |-> None,
           start_date |-> None, end_date |-> None] : f \in BOOLEAN}
    \cup {[command |-> "status", force |-> FALSE, output |-> None,
           start_date |-> None, end_date |-> None]}
    \cup {[command |-> c, force |-> FALSE, output |-> o,
           start_date |-> None, end_date |-> None] :
              c \in {"accounts", "transactions", "budgets"}, o \in {None, "out.json"}}
    \cup {[command |-> "cashflow", force |-> FALSE, output |-> o,
           start_date |-> "2023-10-01", end_date |-> "2023-10-31"] :
              o \in {None, "out.json"}}
    \cup {[command |-> "sync", force |-> FALSE, output |-> None,
           start_date |-> d, end_date |-> d2] :
              d \in {None, "2023-10-01"}, d2 \in {None, "2023-10-31"}}

\* the process has called sys.exit
Exited == lastOp.status # <<>>

\* one run of the command line interface, in a new process: cli.mm is a new
\* client on the session file
CliMain(i) ==
    /\ ~Exited
    /\ \E args \in Args, a1 \in Attempts, interrupt \in Interrupts :
         \E outcome \in IF args.command \in {"accounts", "transactions"}
                         THEN GqlOutcomes ELSE {"ok"} :
            Apply("main", i, abspath(SESSION_FILE),
                  cli_main(args, MonarchMoney(SESSION_FILE, None), fs, mtime, now, env,
                           a1, a1, outcome, interrupt))

\* Path.unlink() by process p at position pc: it removes the file, or raises
\* FileNotFoundError when there is none
unlink(p, raised) ==
    IF fs[abspath(SESSION_FILE)].exists
    THEN /\ fs' = [fs EXCEPT ![abspath(SESSION_FILE)] = AbsentFile]
         /\ procs' = [procs EXCEPT ![p].pc = "returned", ![p].ret = False,
                                   ![p].unlinked = @ + 1]
    ELSE /\ fs' = fs
         /\ procs' = [procs EXCEPT ![p].pc = raised]

\* check_session line 43: session_path.exists()
Exists(p) ==
    /\ procs[p].pc = "exists"
    /\ procs' = IF fs[abspath(SESSION_FILE)].exists
                THEN [procs EXCEPT ![p].pc = "stat"]
                ELSE [procs EXCEPT ![p].pc = "returned", ![p].ret = False]
    /\ UNCHANGED <<inst, fs, lastOp, mtime, now, env>>

\* check_session line 49: session_path.stat().st_mtime, which raises
\* FileNotFoundError when the file is gone
StatMtime(p) ==
    /\ procs[p].pc = "stat"
    /\ procs' = IF fs[abspath(SESSION_FILE)].exists
                THEN [procs EXCEPT ![p].pc = "age",
                                   ![p].session_mtime = mtime[abspath(SESSION_FILE)]]
                ELSE [procs EXCEPT ![p].pc = "except"]
    /\ UNCHANGED <<inst, fs, lastOp, mtime, now, env>>

\* check_session lines 50-56: the age against the time to live
CompareAge(p) ==
    /\ procs[p].pc = "age"
    /\ procs' = IF now - procs[p].session_mtime < get_session_ttl(env)
                THEN [procs EXCEPT ![p].pc = "returned", ![p].ret = True]
                ELSE [procs EXCEPT ![p].pc = "unlink"]
    /\ UNCHANGED <<inst, fs, lastOp, mtime, now, env>>

\* check_session line 59: the expired file is removed, inside the try
UnlinkExpired(p) ==
    /\ procs[p].pc = "unlink"
    /\ unlink(p, "except")
    /\ UNCHANGED <<inst, lastOp, mtime, now, env>>

\* check_session lines 63-67: the handler removes the file, outside any try,
\* so a FileNotFoundError of this unlink leaves the function
ExceptUnlink(p) ==
    /\ procs[p].pc = "except"
    /\ unlink(p, "raised")
    /\ UNCHANGED <<inst, lastOp, mtime, now, env>>

\* the exception leaves check_session
Raise(p) ==
    /\ procs[p].pc = "raised"
    /\ procs[p].exc = NoExc
    /\ procs' = [procs EXCEPT ![p].exc = Exc("FileNotFoundError", abspath(SESSION_FILE))]
    /\ UNCHANGED <<inst, fs, lastOp, mtime, now, env>>

\* two processes run check_session on the same session location, their
\* steps interleaved
NextRace ==
    \/ Tick
    \/ \E p \in Procs :
          \/ Exists(p)
          \/ StatMtime(p)
          \/ CompareAge(p)
          \/ UnlinkExpired(p)
          \/ ExceptUnlink(p)
          \/ Raise(p)

SpecRace == InitCli /\ [][NextRace]_vars

NextMain ==
    \/ Tick
    \/ CliMain("A")

SpecMain == InitCli /\ [][NextMain]_vars

NextAuth ==
    \/ Tick
    \/ Construct("A")
    \/ EnsureAuthenticated("A")

SpecAuth == InitCli /\ [][NextAuth]_vars

(***************************************************************************)
(* Properties                                                              *)
(***************************************************************************)
\* the Authorization header of a header dict (None when the key is absent)
Authorization(headers) ==
    IF DictHas(headers, "Authorization") THEN DictGet(headers, "Authorization") ELSE None

\* an absent or empty credential
Blank(v) == v = None \/ v = ""

\* the artifact at the instance's configured session location
Artifact(m) == fs[abspath(m.session_file)]

\* the login POST answered with status 200 and token t
Success(t) == Resp(200, TRUE, {<<"token", t>>})

\* C1: for non-empty email and password, when no saved session is used and
\* the server answers the login POST with 200 and token t, login returns
\* normally, the instance's token is t, and a GraphQL request the instance
\* issues afterwards carries the header Authorization: Token t.
C1_LoginSuccessAttachesToken ==
    /\ \A email \in Emails, password \in Passwords, use_saved_session \in BOOLEAN,
          do_save \in BOOLEAN, mfa_secret_key \in Secrets, t \in Tokens :
          (~Blank(email) /\ ~Blank(password)
           /\ ~(use_saved_session /\ Artifact(inst["A"]).exists))
          => LET r == login(inst["A"], fs, email, password, use_saved_session,
                            do_save, mfa_secret_key, Success(t))
             IN  /\ r.exc = NoExc
                 /\ r.m.token = t
                 /\ \A operation \in Operations, outcome \in GqlOutcomes :
                       LET g == gql_call(r.m, r.fs, operation, outcome)
                       IN  /\ Len(g.reqs) = 1
                           /\ Authorization(g.reqs[1].headers) = "Token " \o t
    /\ \A t \in Tokens :
          (lastOp.op = "login" /\ Len(lastOp.reqs) = 1 /\ lastOp.reqs[1].resp = Success(t))
          => /\ lastOp.exc = NoExc
             /\ inst[lastOp.i].token = t
             /\ Authorization(inst[lastOp.i].headers) = "Token " \o t

\* a login over the network has just returned normally
C1_Witness ==
    /\ lastOp.op = "login" /\ lastOp.exc = NoExc /\ Len(lastOp.reqs) = 1
    /\ inst["A"].token \in Tokens

\* the error login raises for missing credentials
InvalidCredentials ==
    LoginFailedException(
        "Email and password are required to login when not using a saved session.")

\* C2: when no saved session is used, login with email or password absent or
\* empty (any combination) raises LoginFailedException and sends nothing, and
\* so does interactive_login given an empty email and password.
C2_MissingCredentialsRejected ==
    /\ \A email \in Emails, password \in Passwords, use_saved_session \in BOOLEAN,
          do_save \in BOOLEAN, mfa_secret_key \in Secrets, resp \in {NoResponse} :
          ((Blank(email) \/ Blank(password))
           /\ ~(use_saved_session /\ Artifact(inst["A"]).exists))
          => LET r == login(inst["A"], fs, email, password, use_saved_session,
                            do_save, mfa_secret_key, resp)
             IN  r.exc = InvalidCredentials /\ r.reqs = <<>>
    /\ \A code \in Codes, use_saved_session \in BOOLEAN, do_save \in BOOLEAN,
          resp \in {NoResponse}, resp2 \in {NoResponse} :
          ~(use_saved_session /\ Artifact(inst["A"]).exists)
          => LET r == interactive_login(inst["A"], fs, "", "", code,
                                        use_saved_session, do_save, resp, resp2)
             IN  r.exc = InvalidCredentials /\ r.reqs = <<>>
    /\ \A k \in 1..Len(lastOp.reqs) :
          lastOp.reqs[k].url = getLoginEndpoint
          => /\ ~Blank(DictGet(lastOp.reqs[k].json, "username"))
             /\ ~Blank(DictGet(lastOp.reqs[k].json, "password"))

\* a login was refused for its credentials, without a request
C2_Witness ==
    /\ lastOp.op \in {"login", "interactive_login"}
    /\ lastOp.exc = InvalidCredentials
    /\ lastOp.reqs = <<>>

\* the artifact unpickles to a dict with a token field
Loadable(f) == f.exists /\ f.fmt = "pickle" /\ DictHas(f.obj, "token")

\* C3 as stated: if use_saved_session is true and an artifact exists at the
\* session location, login sets the token from the artifact, sends nothing and
\* returns, whatever the email and password.
C3_Original ==
    \A email \in Emails, password \in Passwords, do_save \in BOOLEAN,
       mfa_secret_key \in Secrets, resp \in {NoResponse} :
        Artifact(inst["A"]).exists
        => LET r == login(inst["A"], fs, email, password, TRUE, do_save,
                          mfa_secret_key, resp)
           IN  /\ r.exc = NoExc
               /\ r.reqs = <<>>
               /\ Loadable(Artifact(inst["A"]))
               /\ r.m.token = DictGet(Artifact(inst["A"]).obj, "token")

\* C3, amended: if use_saved_session is true and an artifact exists at the
\* session location, login sends nothing and does not validate the email and
\* password; when the artifact unpickles to a dict with a token field, login
\* sets the token and the Authorization header from it and returns; otherwise
\* it raises the load error and leaves the instance as it was.
C3_SavedSessionRestored ==
    \A email \in Emails, password \in Passwords, do_save \in BOOLEAN,
       mfa_secret_key \in Secrets, resp \in {NoResponse} :
        Artifact(inst["A"]).exists
        => LET r == login(inst["A"], fs, email, password, TRUE, do_save,
                          mfa_secret_key, resp)
               f == Artifact(inst["A"])
           IN  /\ r.reqs = <<>>
               /\ r.fs = fs
               /\ r.exc # InvalidCredentials
               /\ Loadable(f)
                  => /\ r.exc = NoExc
                     /\ r.m.token = DictGet(f.obj, "token")
                     /\ Authorization(r.m.headers)
                            = "Token " \o Str(DictGet(f.obj, "token"))
               /\ ~Loadable(f)
                  => /\ r.exc.type \in {"UnpicklingError", "KeyError"}
                     /\ r.m = inst["A"]

\* login has just returned normally without a request: the session was restored
C3_Witness ==
    /\ lastOp.op = "login" /\ lastOp.exc = NoExc /\ lastOp.reqs = <<>>
    /\ Loadable(Artifact(inst["A"]))
    /\ inst["A"].token = DictGet(Artifact(inst["A"]).obj, "token")

\* C4: answered with the MFA challenge (403), login raises RequireMFAException,
\* sets no token and writes no artifact; a following multi_factor_authenticate
\* answered with 200 and token t leaves the instance with token t and the
\* header Authorization: Token t.
C4_MfaChallengeThenSuccess ==
    \A email \in Emails, password \in Passwords, use_saved_session \in BOOLEAN,
       do_save \in BOOLEAN, mfa_secret_key \in Secrets,
       resp \in {x \in Responses : x.status = 403} :
        (~Blank(email) /\ ~Blank(password)
         /\ ~(use_saved_session /\ Artifact(inst["A"]).exists))
        => LET r == login(inst["A"], fs, email, password, use_saved_session,
                          do_save, mfa_secret_key, resp)
           IN  /\ r.exc.type = "RequireMFAException"
               /\ r.m = inst["A"]
               /\ r.fs = fs
               /\ \A code \in Codes, t \in Tokens :
                     LET r2 == multi_factor_authenticate(r.m, r.fs, email, password,
                                                         code, Success(t))
                     IN  /\ r2.exc = NoExc
                         /\ r2.m.token = t
                         /\ Authorization(r2.m.headers) = "Token " \o t

\* an interactive login met the challenge and completed the MFA step
C4_Witness ==
    /\ lastOp.op = "interactive_login" /\ lastOp.exc = NoExc
    /\ Len(lastOp.reqs) = 2
    /\ inst["A"].token \in Tokens
    /\ Authorization(inst["A"].headers) = "Token " \o inst["A"].token

\* C5 as stated: a non-200 answer to multi_factor_authenticate whose body has
\* a detail field raises RequireMFAException with that detail, one with an
\* error_code raises LoginFailedException with that code, and only a body
\* with neither raises LoginFailedException with the raw HTTP status.
C5_Original ==
    (lastOp.op = "multi_factor_authenticate" /\ lastOp.reqs[1].resp.status # 200)
    => LET resp == lastOp.reqs[1].resp
       IN  IF resp.json /\ DictHas(resp.body, "detail")
           THEN lastOp.exc = RequireMFAException(DictGet(resp.body, "detail"))
           ELSE IF resp.json /\ DictHas(resp.body, "error_code")
           THEN lastOp.exc = LoginFailedException(DictGet(resp.body, "error_code"))
           ELSE lastOp.exc.type = "LoginFailedException"

\* C6: a primary login answered with a status other than 200 and 403 raises
\* LoginFailedException carrying that status and reason; it is never reported
\* as MFA-required and sets no token.
C6_OtherStatusFails ==
    /\ (lastOp.op = "login" /\ Len(lastOp.reqs) = 1
        /\ lastOp.reqs[1].resp.status \notin {200, 403})
       => lastOp.exc = LoginFailedException(
                           "HTTP Code " \o ToString(lastOp.reqs[1].resp.status)
                           \o ": " \o Reason(lastOp.reqs[1].resp.status))
    /\ \A email \in Emails, password \in Passwords, use_saved_session \in BOOLEAN,
       do_save \in BOOLEAN, mfa_secret_key \in Secrets,
       resp \in {x \in Responses : x.status \notin {200, 403}} :
        (~Blank(email) /\ ~Blank(password)
         /\ ~(use_saved_session /\ Artifact(inst["A"]).exists))
          => LET r == login(inst["A"], fs, email, password, use_saved_session,
                            do_save, mfa_secret_key, resp)
             IN  /\ r.exc = LoginFailedException(
                                "HTTP Code " \o ToString(resp.status) \o ": "
                                \o Reason(resp.status))
                 /\ r.exc.type # "RequireMFAException"
                 /\ r.m.token = inst["A"].token
                 /\ Len(r.reqs) = 1

\* a login over the network has just failed with the status
C6_Witness ==
    /\ lastOp.op = "login" /\ Len(lastOp.reqs) = 1
    /\ lastOp.exc \in {LoginFailedException("HTTP Code 401: Unauthorized"),
                       LoginFailedException("HTTP Code 500: Internal Server Error")}

\* C7: a login or multi_factor_authenticate call that raises leaves the
\* instance's token, its headers and the session artifacts as they were.
C7_FailureChangesNothing ==
    [][(lastOp'.op \in {"login", "multi_factor_authenticate"} /\ lastOp'.exc # NoExc)
       => (inst' = inst /\ fs' = fs)]_vars

\* an MFA completion has just failed on an instance holding no token, and one
\* on an instance holding a token
C7_Witness ==
    /\ lastOp.op = "multi_factor_authenticate"
    /\ lastOp.exc.type = "LoginFailedException"
    /\ inst["A"].token = None
    /\ ~DictHas(inst["A"].headers, "Authorization")

\* C8 as stated: the GraphQL request carries the current token, that is, the
\* Authorization header sent is "Token " followed by the token property.
C8_Original ==
    (lastOp.op = "gql_call" /\ inst[lastOp.i].token # None)
    => /\ Len(lastOp.reqs) = 1
       /\ Authorization(lastOp.reqs[1].headers) = "Token " \o inst[lastOp.i].token

\* C9 as stated: gql_call on an instance that was never authenticated raises
\* the "call login() first" error and sends nothing.
C9_Original ==
    (lastOp.op = "gql_call" /\ inst[lastOp.i] = MonarchMoney(SESSION_FILE, None))
    => /\ lastOp.exc = LoginFailedException(
                           "Make sure you call login() first or provide a session token!")
       /\ lastOp.reqs = <<>>

\* C10 as stated: when an instance A holding a token saves its session and a
\* fresh instance B loads it from the same location, B's token is A's token
\* and B's requests carry the Authorization header A's requests carry.
C10_Original ==
    [][(/\ lastOp.op = "save_session" /\ lastOp.i = "A"
        /\ inst["A"].token # None
        /\ inst["B"] = MonarchMoney(SESSION_FILE, None)
        /\ lastOp'.op = "load_session" /\ lastOp'.i = "B"
        /\ lastOp'.path = lastOp.path)
       => (/\ lastOp'.exc = NoExc
           /\ inst'["B"].token = inst["A"].token
           /\ \A operation \in Operations, outcome \in GqlOutcomes :
                 Authorization(gql_call(inst'["B"], fs', operation, outcome).reqs[1].headers)
                 = Authorization(gql_call(inst["A"], fs, operation, outcome).reqs[1].headers))]_vars

\* the location the command line interface keeps its session at
SessionPath == abspath(SESSION_FILE)

\* a step made by a call of op (the clock does not move during a call)
Called(op) == lastOp'.op = op /\ now' = now

\* C11: check_session returns False when no artifact exists at the session
\* location; when one exists it returns True exactly when its age, the current
\* time minus its modification time, is less than the time to live, and False
\* when the age equals or exceeds it.
C11_CheckSessionByAge ==
    [][Called("check_session") =>
        /\ lastOp'.exc = NoExc
        /\ ~fs[SessionPath].exists => lastOp'.ret = False
        /\ fs[SessionPath].exists =>
               LET age == now - mtime[SessionPath]
               IN  /\ age < get_session_ttl(env) => lastOp'.ret = True
                   /\ age >= get_session_ttl(env) => lastOp'.ret = False]_vars

\* a session one second younger than the time to live was found valid
C11_Witness ==
    /\ lastOp.op = "check_session"
    /\ lastOp.ret = True
    /\ fs[SessionPath].exists
    /\ now - mtime[SessionPath] = get_session_ttl(env) - 1

\* C12: whenever check_session returns False no artifact remains at the
\* session location afterwards; whenever it returns True the artifact is left
\* in place with its content and its modification time unchanged.
C12_FalseLeavesNoArtifact ==
    [][Called("check_session") =>
        /\ lastOp'.ret = False => ~fs'[SessionPath].exists
        /\ lastOp'.ret = True =>
               /\ fs'[SessionPath].exists
               /\ fs'[SessionPath] = fs[SessionPath]
               /\ mtime'[SessionPath] = mtime[SessionPath]]_vars

\* a session saved during the run was found valid and is still there
C12_Witness ==
    /\ lastOp.op = "check_session"
    /\ lastOp.ret = True
    /\ \E t \in Tokens : fs[SessionPath] = PickleFile({<<"token", t>>})
    /\ mtime[SessionPath] > 0
    /\ now > mtime[SessionPath]

\* C13: delete_session on a location holding no artifact raises no error and
\* changes nothing; on a location holding one it removes it and touches no
\* other location; so a second call in a row does what one call does.
C13_DeleteSessionIdempotent ==
    [][Called("delete_session") =>
        LET p == lastOp'.path
        IN  /\ lastOp'.exc = NoExc
            /\ ~fs'[p].exists
            /\ \A q \in Paths \ {p} : fs'[q] = fs[q] /\ mtime'[q] = mtime[q]
            /\ inst' = inst
            /\ ~fs[p].exists => fs' = fs /\ mtime' = mtime]_vars

\* delete_session returned normally on the default location, which is empty,
\* while the other location still holds a session
C13_Witness ==
    /\ lastOp.op = "delete_session"
    /\ lastOp.exc = NoExc
    /\ lastOp.path = abspath(SESSION_FILE)
    /\ ~fs[abspath(SESSION_FILE)].exists
    /\ fs[abspath(TEMP_FILE)].exists

\* the errors open(), pickle.load() and data["token"] raise
SessionLoadErrors == {"FileNotFoundError", "UnpicklingError", "KeyError"}

\* C14: load_session fails with a session-load error when the artifact is
\* absent, cannot be unpickled, or unpickles to a structure without a token
\* field; in each case the instance's token and Authorization header (and its
\* other headers) keep the values they had, and no file changes.
C14_LoadFailureKeepsState ==
    [][Called("load_session") =>
        LET f == fs[lastOp'.path]
        IN  (~f.exists \/ f.fmt # "pickle" \/ ~(\E kv \in f.obj : kv[1] = "token")) =>
                /\ lastOp'.exc.type \in SessionLoadErrors
                /\ inst' = inst
                /\ fs' = fs]_vars

\* an authenticated instance was asked to load a pickle that has no token
\* field and still holds its token and header
C14_Witness ==
    /\ lastOp.op = "load_session"
    /\ lastOp.exc.type = "KeyError"
    /\ fs[lastOp.path] = PickleFile({})
    /\ \E t \in Tokens :
           /\ inst[lastOp.i].token = t
           /\ Authorization(inst[lastOp.i].headers) = "Token " \o t

\* an instance holding a token and sending it
Authenticated(m) ==
    /\ m.token \in Tokens
    /\ Authorization(m.headers) = "Token " \o m.token

\* an instance holding no token and sending no Authorization header
Unauthenticated(m) ==
    /\ m.token = None
    /\ Authorization(m.headers) = None

\* a step that deletes a session explicitly, or in which a GraphQL request is
\* answered Unauthorized
DeletedOrRejected ==
    \/ Called("delete_session")
    \/ /\ Called("gql_call")
       /\ Len(lastOp'.reqs) = 1
       /\ lastOp'.reqs[1].resp.status = 401

\* C15 as stated: an authenticated instance becomes unauthenticated (no token,
\* no Authorization header) after an explicit delete_session and after a
\* GraphQL request that fails with an unauthorized response.
C15_Original ==
    [][(DeletedOrRejected /\ Authenticated(inst[lastOp'.i])) =>
            Unauthenticated(inst'[lastOp'.i])]_vars

\* C15 amended: an authenticated instance stays authenticated, with the same
\* token and the same Authorization header on later requests, after an
\* explicit delete_session (which removes only the artifact) and after a
\* GraphQL request that fails with an unauthorized response.
C15_InstanceStaysAuthenticated ==
    [][(DeletedOrRejected /\ Authenticated(inst[lastOp'.i])) =>
            /\ Authenticated(inst'[lastOp'.i])
            /\ inst'[lastOp'.i] = inst[lastOp'.i]
            /\ Called("delete_session") => ~fs'[lastOp'.path].exists]_vars

\* the session was deleted and the instance still holds and sends its token
C15_Witness ==
    /\ lastOp.op = "delete_session"
    /\ Authenticated(inst[lastOp.i])
    /\ ~Artifact(inst[lastOp.i]).exists
    /\ lastOp.path = abspath(inst[lastOp.i].session_file)

\* C16: a GraphQL request that times out or gets an error answer fails to the
\* caller and leaves the token, the Authorization header, the configured
\* timeout and the persisted artifact unchanged.
C16_FailedRequestChangesNothing ==
    [][(/\ Called("gql_call")
        /\ Len(lastOp'.reqs) = 1
        /\ lastOp'.reqs[1].resp.status # 200) =>
            /\ lastOp'.exc # NoExc
            /\ inst'[lastOp'.i].token = inst[lastOp'.i].token
            /\ inst'[lastOp'.i].headers = inst[lastOp'.i].headers
            /\ inst'[lastOp'.i].timeout = inst[lastOp'.i].timeout
            /\ fs' = fs
            /\ mtime' = mtime]_vars

\* a request of an authenticated instance with a saved session and a timeout
\* of its own timed out
C16_Witness ==
    /\ lastOp.op = "gql_call"
    /\ lastOp.exc.type = "TimeoutError"
    /\ Len(lastOp.reqs) = 1
    /\ Authenticated(inst[lastOp.i])
    /\ inst[lastOp.i].timeout # DEFAULT_TIMEOUT
    /\ Artifact(inst[lastOp.i]) = PickleFile({<<"token", inst[lastOp.i].token>>})

\* C17: no retries. A login call issues at most one login POST, a
\* multi_factor_authenticate call exactly one, a gql_call exactly one GraphQL
\* request, whose decoded payload is returned as received; an answer other
\* than 200 makes the call fail to its caller.
C17_NoRetries ==
    /\ lastOp.op = "login" =>
           /\ Len(lastOp.reqs) <= 1
           /\ \A k \in 1..Len(lastOp.reqs) :
                  /\ lastOp.reqs[k].url = getLoginEndpoint
                  /\ lastOp.reqs[k].resp.status # 200 => lastOp.exc # NoExc
    /\ lastOp.op = "multi_factor_authenticate" =>
           /\ Len(lastOp.reqs) = 1
           /\ lastOp.reqs[1].url = getLoginEndpoint
           /\ lastOp.reqs[1].resp.status # 200 => lastOp.exc # NoExc
    /\ lastOp.op = "gql_call" =>
           /\ Len(lastOp.reqs) = 1
           /\ lastOp.reqs[1].url = getGraphQL
           /\ lastOp.reqs[1].resp.status = 200 =>
                  lastOp.exc = NoExc /\ lastOp.retdict = lastOp.reqs[1].resp.body
           /\ lastOp.reqs[1].resp.status # 200 => lastOp.exc # NoExc

\* a GraphQL request was answered Unauthorized and the call failed after that
\* one request
C17_Witness ==
    /\ lastOp.op = "gql_call"
    /\ Len(lastOp.reqs) = 1
    /\ lastOp.reqs[1].resp.status = 401
    /\ lastOp.exc.type = "TransportServerError"

\* the artifact an instance writes: one entry, its token
SessionOf(m) == PickleFile({<<"token", m.token>>})

\* C18: a location holds at most one entry and a write overwrites it. After
\* save_session the location holds exactly the writer's token; whatever call
\* changes a location leaves it empty or holding exactly the token of the
\* instance that wrote; a load_session that succeeds gives the instance the
\* token the location holds.
C18_WriteOverwrites ==
    [][/\ Called("save_session") =>
              /\ lastOp'.exc = NoExc
              /\ fs'[lastOp'.path] = SessionOf(inst'[lastOp'.i])
       /\ \A p \in Paths :
              fs'[p] # fs[p] =>
                  \/ fs'[p] = AbsentFile
                  \/ fs'[p] = SessionOf(inst'[lastOp'.i])
       /\ (Called("load_session") /\ lastOp'.exc = NoExc) =>
              /\ fs'[lastOp'.path] = fs[lastOp'.path]
              /\ fs'[lastOp'.path] = SessionOf(inst'[lastOp'.i])]_vars

\* one location was just written with one token while the other location
\* holds another
C18_Witness ==
    /\ lastOp.op = "save_session"
    /\ lastOp.path = abspath(TEMP_FILE)
    /\ inst[lastOp.i].token \in Tokens
    /\ fs[abspath(TEMP_FILE)] = SessionOf(inst[lastOp.i])
    /\ \E t \in Tokens \ {inst[lastOp.i].token} :
           fs[abspath(SESSION_FILE)] = PickleFile({<<"token", t>>})

\* the credential values a caller supplies or the client derives from them
Credentials ==
    ((Emails \cup Passwords \cup Secrets \cup Codes)
        \cup {generate_otp(k) : k \in Secrets \ {None}}) \ {None, ""}

\* C19: credentials are never persisted. Whatever a call writes at a location
\* is a pickle whose only field is the token; no email, password, MFA secret
\* or one-time code appears in it.
C19_OnlyTokenPersisted ==
    [][\A p \in Paths :
          (fs'[p] # fs[p] /\ fs'[p].exists) =>
              /\ fs'[p].fmt = "pickle"
              /\ {kv[1] : kv \in fs'[p].obj} = {"token"}
              /\ \A kv \in fs'[p].obj : kv[2] \notin Credentials]_vars

\* a login that sent email, password and a one-time code derived from the MFA
\* secret succeeded, and the artifact holds the token it was issued
C19_Witness ==
    /\ lastOp.op = "login"
    /\ lastOp.exc = NoExc
    /\ Len(lastOp.reqs) = 1
    /\ \E kv \in lastOp.reqs[1].json : kv[1] = "totp" /\ kv[2] \in Credentials
    /\ \E kv \in lastOp.reqs[1].json : kv[1] = "password" /\ kv[2] \in Credentials
    /\ Artifact(inst[lastOp.i]) = SessionOf(inst[lastOp.i])
    /\ inst[lastOp.i].token = DictGet(lastOp.reqs[1].resp.body, "token")

\* the outcome r of a call on instance m wrote m's session location with
\* token t and nothing else
WroteSession(m, r, t) ==
    /\ r.exc = NoExc
    /\ r.wrote = {abspath(m.session_file)}
    /\ r.fs[abspath(m.session_file)] = PickleFile({<<"token", t>>})
    /\ \A q \in Paths \ {abspath(m.session_file)} : r.fs[q] = fs[q]

\* the outcome r of a call wrote no file
WroteNothing(r) == r.wrote = {} /\ r.fs = fs

\* C20: the artifact is written on authentication success exactly when
\* persistence was requested. A network login answered with token t, and an
\* interactive_login that completes through the MFA challenge with token t,
\* leave the artifact holding t when save_session is true and write nothing
\* when it is false; a login that restores a saved session writes nothing.
C20_SavedExactlyWhenRequested ==
    \A use_saved_session \in BOOLEAN, do_save \in BOOLEAN, t \in Tokens :
        LET m == inst["A"]
            email == "user@example.com"
            password == "hunter2"
            restores == use_saved_session /\ Artifact(m).exists
            r == login(m, fs, email, password, use_saved_session, do_save, None,
                       IF restores THEN NoResponse ELSE Success(t))
        IN  /\ (~restores /\ do_save) => WroteSession(m, r, t)
            /\ (~restores /\ ~do_save) => r.exc = NoExc /\ WroteNothing(r)
            /\ restores => WroteNothing(r)
            /\ \A code \in Codes, challenge \in {x \in Responses : x.status = 403} :
                   LET r2 == interactive_login(m, fs, email, password, code,
                                               use_saved_session, do_save,
                                               IF restores THEN NoResponse ELSE challenge,
                                               IF restores THEN NoResponse ELSE Success(t))
                   IN  /\ (~restores /\ do_save) => WroteSession(m, r2, t)
                       /\ (~restores /\ ~do_save) => r2.exc = NoExc /\ WroteNothing(r2)
                       /\ restores => WroteNothing(r2)

\* an interactive login went through the MFA challenge and the artifact holds
\* the token the second answer issued
C20_Witness ==
    /\ lastOp.op = "interactive_login"
    /\ lastOp.exc = NoExc
    /\ Len(lastOp.reqs) = 2
    /\ lastOp.reqs[1].resp.status = 403
    /\ \E t \in Tokens :
           /\ lastOp.reqs[2].resp = Success(t)
           /\ Artifact(inst[lastOp.i]) = PickleFile({<<"token", t>>})

\* C21: MONARCH_ENV selects the expiry window: 'production' in any
\* capitalisation gives 15 minutes, every other value and an unset variable
\* give 60 minutes, so the production window is strictly the shorter one; and
\* this is the window check_session applies.
C21_TtlByEnvironment ==
    [][LET production == env \in {"production", "Production"}
           ttl == IF production THEN 15 * 60 ELSE 60 * 60
       IN  /\ get_session_ttl(env) = ttl
           /\ PRODUCTION_TTL < DEVELOPMENT_TTL
           /\ (Called("check_session") /\ fs[SessionPath].exists) =>
                  (lastOp'.ret = True <=> now - mtime[SessionPath] < ttl)]_vars

\* with MONARCH_ENV=staging a session older than 15 minutes was found valid
C21_Witness ==
    /\ env = "staging"
    /\ lastOp.op = "check_session"
    /\ lastOp.ret = True
    /\ fs[SessionPath].exists
    /\ now - mtime[SessionPath] > PRODUCTION_TTL

C23_Original ==
    (lastOp.op = "login" /\ lastOp.exc = NoExc) => Authenticated(inst[lastOp.i])

\* C23 amended: whenever login returns without raising, the instance is
\* authenticated, except on the saved-session path with an artifact that an
\* instance without a token saved: that artifact holds token None and is
\* restored as token None with the header 'Token None'.
C23_LoginReturnsAuthenticated ==
    (lastOp.op = "login" /\ lastOp.exc = NoExc) =>
        \/ Authenticated(inst[lastOp.i])
        \/ /\ lastOp.reqs = <<>>
           /\ Artifact(inst[lastOp.i]) = PickleFile({<<"token", None>>})
           /\ inst[lastOp.i].token = None
           /\ Authorization(inst[lastOp.i].headers) = "Token None"

\* login restored a session some instance saved while holding a token
C23_Witness ==
    /\ lastOp.op = "login"
    /\ lastOp.exc = NoExc
    /\ lastOp.reqs = <<>>
    /\ Authenticated(inst[lastOp.i])
    /\ Artifact(inst[lastOp.i]) = SessionOf(inst[lastOp.i])

\* the artifact at the session location is at least as old as the time to live
Expired == fs[SessionPath].exists /\ now - mtime[SessionPath] >= get_session_ttl(env)

\* C24 as stated: login with use_saved_session=true never sets the token
\* from an artifact whose age is at or beyond the time to live; for such an
\* artifact it proceeds as if no saved session existed (it sends the login
\* POST and takes the token of the answer).
C24_Original ==
    \A t \in Tokens :
        LET r == login(inst["A"], fs, "user@example.com", "hunter2", TRUE, FALSE, None,
                       IF Artifact(inst["A"]).exists THEN NoResponse ELSE Success(t))
        IN  Expired =>
                r = login(inst["A"], fs, "user@example.com", "hunter2", FALSE, FALSE, None,
                          Success(t))

\* C24 amended: the command line interface loads a persisted session only if
\* it is present and not expired: ensure_authenticated calls load_session only
\* on an artifact younger than the time to live and otherwise goes to a fresh
\* interactive login without loading; login with use_saved_session=true
\* applies no expiry and takes the token of any artifact that holds one,
\* sending nothing.
C24_OnlyCliExpiresSessions ==
    [][/\ Called("ensure_authenticated") =>
              /\ "load_session" \in {lastOp'.calls[k] : k \in 1..Len(lastOp'.calls)} =>
                     /\ fs[SessionPath].exists
                     /\ now - mtime[SessionPath] < get_session_ttl(env)
              /\ Expired => lastOp'.calls = <<"check_session", "interactive_login">>
       /\ \A t \in Tokens :
              fs[SessionPath] = PickleFile({<<"token", t>>}) =>
                  LET r == login(inst["A"], fs, "user@example.com", "hunter2", TRUE,
                                 FALSE, None, NoResponse)
                  IN  r.exc = NoExc /\ r.reqs = <<>> /\ r.m.token = t]_vars

\* ensure_authenticated found the session younger than the time to live and
\* loaded it
C24_Witness ==
    /\ lastOp.op = "ensure_authenticated"
    /\ Len(lastOp.calls) >= 2
    /\ lastOp.calls[2] = "load_session"
    /\ now >= PRODUCTION_TTL
    /\ env = None

\* C25: ensure_authenticated loads the persisted session if and only if
\* force_login is false and the artifact is present and younger than the time
\* to live (check_session returns True); in every other case it makes a fresh
\* interactive login, with use_saved_session=false (the login POST is sent
\* even if an artifact exists) and save_session=true (a token it obtains is
\* saved), and never calls load_session.
C25_LoadsIffValidAndNotForced ==
    \A force_login \in BOOLEAN, a \in Attempts :
        LET r == ensure_authenticated(inst["A"], fs, mtime, now, env, force_login, a, a)
            valid == fs[SessionPath].exists
                     /\ now - mtime[SessionPath] < get_session_ttl(env)
            loads == \E k \in 1..Len(r.calls) : r.calls[k] = "load_session"
        IN  /\ loads <=> (~force_login /\ valid)
            /\ ~(~force_login /\ valid) =>
                   /\ r.calls = <<"check_session", "interactive_login">>
                   /\ a.email # "" => Len(r.reqs) >= 1
                   /\ \A t \in Tokens :
                          (a.resp = Success(t) \/ a.resp2 = Success(t)) =>
                              /\ r.exc = NoExc
                              /\ r.ret = True
                              /\ r.m.token = t
                              /\ r.fs[SessionPath] = PickleFile({<<"token", t>>})

\* no valid session was found: a fresh interactive login was made and the
\* token it obtained was saved at the current time
C25_Witness ==
    /\ lastOp.op = "ensure_authenticated"
    /\ lastOp.calls = <<"check_session", "interactive_login">>
    /\ lastOp.ret = True
    /\ Len(lastOp.reqs) = 2
    /\ Artifact(inst[lastOp.i]) = SessionOf(inst[lastOp.i])
    /\ mtime[SessionPath] = now
    /\ now > PRODUCTION_TTL

\* C26: in ensure_authenticated with a restored session, the fallback to a
\* fresh interactive login happens if and only if the validation request fails
\* with an unauthorized-looking error; a validation failure of any other kind
\* is re-raised to the caller and triggers no interactive login.
C26_Original ==
    \A a \in Attempts :
        LET c == check_session(inst["A"], fs, mtime, now, env)
            l == load_session(inst["A"], c.fs, SESSION_FILE)
            v == get_subscription_details(l.m, l.fs)
            r == ensure_authenticated(inst["A"], fs, mtime, now, env, FALSE, a, a)
            falls_back == \E k \in 1..Len(r.calls) : r.calls[k] = "interactive_login"
        IN  (c.ret = True /\ l.exc = NoExc) =>
                /\ falls_back <=> (v.exc # NoExc /\ UnauthorizedLooking(v.exc))
                /\ (v.exc # NoExc /\ ~UnauthorizedLooking(v.exc)) => r.exc = v.exc

\* the interactive logins one ensure_authenticated call started
InteractiveLogins(calls) ==
    {k \in 1..Len(calls) : calls[k] = "interactive_login"}

\* the POSTs to the login endpoint among the requests of a call
LoginPosts(reqs) ==
    {k \in 1..Len(reqs) : reqs[k].url = getLoginEndpoint}

\* C27: one ensure_authenticated call starts at most one interactive login
\* (at most one primary login POST and one MFA POST), whatever the outcome
\* of session loading, session validation and the login itself.
C27_AtMostOneInteractiveLogin ==
    [][Called("ensure_authenticated") =>
          /\ Cardinality(InteractiveLogins(lastOp'.calls)) <= 1
          /\ Cardinality(LoginPosts(lastOp'.reqs)) <= 2
          /\ \A j, k \in LoginPosts(lastOp'.reqs) :
                 j < k => lastOp'.reqs[j].resp = MfaChallenge]_vars

\* the session was restored, its validation failed, and the one interactive
\* login that followed failed as well: no further login was started
C27_Witness ==
    /\ lastOp.op = "ensure_authenticated"
    /\ lastOp.calls = <<"check_session", "load_session", "get_subscription_details",
                        "interactive_login">>
    /\ lastOp.exc # NoExc
    /\ Len(lastOp.reqs) = 2

\* C28: whenever ensure_authenticated returns, it returns True, the instance
\* holds a non-null token, its Authorization header carries that token, and
\* the artifact at the session location of the command line interface exists
\* and contains the same token; in every other case the call raises.
C28_ReturnsOnlyAuthenticatedAndSaved ==
    [][Called("ensure_authenticated") =>
          IF lastOp'.exc = NoExc
          THEN /\ lastOp'.ret = True
               /\ Authenticated(inst'[lastOp'.i])
               /\ fs'[SessionPath].exists
               /\ fs'[SessionPath] = SessionOf(inst'[lastOp'.i])
          ELSE lastOp'.ret = None]_vars

\* the restored session failed validation and the login that followed, with
\* its second factor, succeeded: the call returned True and saved the token
C28_Witness ==
    /\ lastOp.op = "ensure_authenticated"
    /\ lastOp.ret = True
    /\ Len(lastOp.calls) = 4
    /\ Len(lastOp.reqs) = 2
    /\ Authenticated(inst[lastOp.i])
    /\ fs[SessionPath] = SessionOf(inst[lastOp.i])

\* C29: check_session always returns a boolean and never raises, also when
\* two processes run it concurrently on the same session location; in every
\* interleaving the artifact is removed at most once, and both calls return
\* False for an artifact that is expired throughout.
C29_Original ==
    /\ \A p \in Procs :
          /\ procs[p].pc # "raised"
          /\ procs[p].exc = NoExc
          /\ procs[p].pc = "returned" => procs[p].ret \in {True, False}
          /\ (procs[p].pc = "returned" /\ now - MaxTicks >= get_session_ttl(env)) =>
                 procs[p].ret = False
    /\ procs["P"].unlinked + procs["Q"].unlinked <= 1

\* the fetches cmd_full_sync lists, in order, for the given dates
SyncFetches(start_date, end_date) ==
    <<"get_subscription_details", "get_accounts", "get_institutions", "get_budgets",
      "get_transactions_summary", "get_transaction_categories", "get_transactions">>
    \o (IF Truthy(start_date) /\ Truthy(end_date) THEN <<"get_cashflow">> ELSE <<>>)

\* C30: in a full sync every fetch (subscription, accounts, institutions,
\* budgets, transactions_summary, categories, transactions, and cashflow
\* exactly when both dates are given) is attempted exactly once, in that
\* order; the failure of one fetch does not prevent the later ones, so the
\* command completes; a file is written only for a fetch that succeeded.
C30_Original ==
    ~Exited =>
        \A args \in {g \in Args : g.command = "sync"}, a \in Attempts,
           outcome \in GqlOutcomes :
            LET m == MonarchMoney(SESSION_FILE, None)
                ea == ensure_authenticated(m, fs, mtime, now, env, args.force, a, a)
                r == main(args, m, fs, mtime, now, env, a, a, outcome, None)
            IN  ea.exc = NoExc =>
                    /\ Len(r.calls) >= Len(ea.calls)
                    /\ SubSeq(r.calls, Len(ea.calls) + 1, Len(r.calls))
                           = SyncFetches(args.start_date, args.end_date)
                    /\ r.status = <<0>>
                    /\ r.saved \subseteq
                           {SyncNames[k] \o ".json" : k \in 1..Len(SyncNames)}
                               \cup {"cashflow.json"}

====
